---- MODULE Spec2Model ----
(***************************************************************************)
(* Model of the yfinance backend (src/backend/main.py): a stateless HTTP   *)
(* facade.  Every handler is one action: it serves one request, drawing    *)
(* what the provider answers to each call the handler actually makes, and  *)
(* leaves the response in resp.  NextRequest takes the server back to      *)
(* waiting for the next, independent request.                              *)
(*                                                                         *)
(* Numbers are fixed point: Num(n) stands for n / Scale.                   *)
(***************************************************************************)
EXTENDS Integers, Sequences, FiniteSets, TLC

VARIABLES op, req, prov, resp

vars == <<op, req, prov, resp>>

----------------------------------------------------------------------------
(* Provider values: a dict value or DataFrame cell is a number, None, a    *)
(* float NaN, or the key/column is missing.                                *)

Scale == 10000

Num(n) == [k |-> "num", v |-> n]

None == [k |-> "none", v |-> 0]

NaN == [k |-> "nan", v |-> 0]

Missing == [k |-> "missing", v |-> 0]

\* a provider call or a key that the handler never reached
Unread == [k |-> "unread", v |-> 0]

IsNum(x) == x.k = "num"

\* Python truthiness: None and 0 are falsy, NaN and every other number truthy
Truthy(x) == x.k = "nan" \/ (x.k = "num" /\ x.v # 0)

\* dict.get(key) / Series.get(key): a missing key reads as None
Get(x) == IF x.k = "missing" THEN None ELSE x

\* dict.get(key, default): the default replaces a missing key only
GetDefault(x, d) == IF x.k = "missing" THEN d ELSE x

\* math.isnan
IsNaN(x) == x.k = "nan"

\* str.upper() on the symbols of the model
Upper(s) == IF s = "aapl" THEN "AAPL" ELSE s

Symbols == {"aapl"}

\* what an info key can hold when it carries a price
PriceVals == {Missing, Num(0), Num(95 * Scale), Num(101 * Scale)}

\* the error response FastAPI sends for HTTPException(status_code=code)
HTTPError(code) == [status |-> code]

\* how a handler's try body ends: it returns a value, raises HTTPException, or
\* raises any other exception
Return(v) == [exc |-> "", value |-> v]

RaiseHTTP(code) == [exc |-> "HTTPException", value |-> HTTPError(code)]

RaiseOther == [exc |-> "Exception", value |-> HTTPError(0)]

\* variant: no `except HTTPException: raise` clause before `except Exception`
ExceptClauses_NoReraise(r) == IF r.exc = "" THEN r.value ELSE HTTPError(500)

\* except HTTPException: raise
\* except Exception as e: raise HTTPException(status_code=500, detail=str(e))
ExceptClauses(r) == IF r.exc = "Exception" THEN HTTPError(500) ELSE r.value

----------------------------------------------------------------------------
(* The provider's answers to `ticker.info` and the price lookup            *)
(*   info.get("currentPrice") or info.get("regularMarketPrice")            *)
(* `or` evaluates its right operand only when the left one is falsy.       *)

InfoRaised == [info |-> "raises", currentPrice |-> Unread, regularMarketPrice |-> Unread]

PriceRuns ==
    {[info |-> "ok", currentPrice |-> cp, regularMarketPrice |-> Unread] :
        cp \in {x \in PriceVals : Truthy(Get(x))}}
    \cup
    {[info |-> "ok", currentPrice |-> cp, regularMarketPrice |-> rmp] :
        cp \in {x \in PriceVals : ~Truthy(Get(x))}, rmp \in PriceVals}

ResolvePrice(p) ==
    IF Truthy(Get(p.currentPrice)) THEN Get(p.currentPrice) ELSE Get(p.regularMarketPrice)

----------------------------------------------------------------------------
(* GET /quote/{symbol}                                                     *)

PrevCloseVals == {Missing, None, NaN, Num(0), Num(99 * Scale)}

OpenVals == {Missing, Num(0), Num(100 * Scale)}

\* info.get("open") or info.get("regularMarketOpen")
OpenRuns ==
    {[open |-> o, regularMarketOpen |-> Unread] : o \in {x \in OpenVals : Truthy(Get(x))}}
    \cup
    {[open |-> o, regularMarketOpen |-> r] :
        o \in {x \in OpenVals : ~Truthy(Get(x))}, r \in OpenVals}

QuoteRun(q, previousClose, o) ==
    [info |-> q.info, currentPrice |-> q.currentPrice,
     regularMarketPrice |-> q.regularMarketPrice, previousClose |-> previousClose,
     open |-> o.open, regularMarketOpen |-> o.regularMarketOpen]

OpenUnread == [open |-> Unread, regularMarketOpen |-> Unread]

\* QuoteResponse(...): price and previousClose are declared float, so None
\* fails validation (ValidationError); open is Optional
QuoteResponse(symbol, price, previousClose, open) ==
    IF price.k = "none" \/ previousClose.k = "none"
    THEN RaiseOther
    ELSE Return([status |-> 200, symbol |-> symbol, price |-> price,
                 previousClose |-> previousClose, open |-> open])

\* the try body of get_quote
get_quote_body(symbol, p) ==
    IF p.info = "raises" THEN RaiseOther
    ELSE LET price == ResolvePrice(p) IN
         IF ~Truthy(price) THEN RaiseHTTP(404)
         ELSE QuoteResponse(Upper(symbol), price, GetDefault(p.previousClose, price),
                            IF Truthy(Get(p.open)) THEN Get(p.open)
                            ELSE Get(p.regularMarketOpen))

get_quote(symbol, p) == ExceptClauses(get_quote_body(symbol, p))

QuoteServe(symbol, p) ==
    /\ op' = "get_quote"
    /\ req' = [symbol |-> symbol]
    /\ prov' = p
    /\ resp' = get_quote(symbol, p)

GetQuote ==
    /\ op = "idle"
    /\ \E symbol \in Symbols :
        \/ QuoteServe(symbol, QuoteRun(InfoRaised, Unread, OpenUnread))
        \/ \E q \in PriceRuns :
            IF ~Truthy(ResolvePrice(q))
            THEN QuoteServe(symbol, QuoteRun(q, Unread, OpenUnread))
            ELSE \E pc \in PrevCloseVals, o \in OpenRuns :
                    QuoteServe(symbol, QuoteRun(q, pc, o))

----------------------------------------------------------------------------
(* Python numerics on fixed-point values                                   *)

\* round(x, ndigits) for a grid of `unit` (Scale \div 10 for one decimal):
\* Python 3 rounds a tie to the even neighbour; NaN stays NaN
RoundUnit(n, unit) ==
    LET q == n \div unit
        r == n % unit
    IN  IF 2 * r < unit THEN q * unit
        ELSE IF 2 * r > unit THEN (q + 1) * unit
        ELSE IF q % 2 = 0 THEN q * unit ELSE (q + 1) * unit

Round(x, unit) == IF IsNum(x) THEN Num(RoundUnit(x.v, unit)) ELSE x

\* x < y on floats: every comparison with NaN is False
Less(x, y) == IsNum(x) /\ IsNum(y) /\ x.v < y.v

\* min(a, b) and max(a, b): the second argument wins only when it compares
\* strictly smaller (larger), so a NaN second argument is dropped
PyMin(a, b) == IF Less(b, a) THEN b ELSE a

PyMax(a, b) == IF Less(a, b) THEN b ELSE a

\* a * c and a - b, a + b on floats: NaN is contagious
Times(x, c) == IF IsNum(x) THEN Num(x.v * c) ELSE NaN

Minus(x, y) == IF IsNum(x) /\ IsNum(y) THEN Num(x.v - y.v) ELSE NaN

Plus(x, y) == IF IsNum(x) /\ IsNum(y) THEN Num(x.v + y.v) ELSE NaN

Abs(x) == IF IsNum(x) THEN Num(IF x.v < 0 THEN 0 - x.v ELSE x.v) ELSE NaN

----------------------------------------------------------------------------
(* The provider's answer to `ticker.options`: the expiration dates in      *)
(* chronological order.                                                    *)

AllDates == <<"2025-01-17", "2025-02-21">>

RECURSIVE Pick(_, _)
Pick(S, i) ==
    IF i > Len(AllDates) THEN <<>>
    ELSE IF i \in S THEN <<AllDates[i]>> \o Pick(S, i + 1) ELSE Pick(S, i + 1)

ExpirationLists == {Pick(S, 1) : S \in SUBSET (1..Len(AllDates))}

----------------------------------------------------------------------------
(* GET /iv/{symbol}                                                        *)

MaxRows == 3

StrikeVals == {Num(90 * Scale), Num(100 * Scale), Num(110 * Scale)}

\* raw impliedVolatility cells of the calls table: 0, 0.9996, 1.0 and 1.25
IVCells == {Num(0), Num(9996), Num(10000), Num(12500)}

BetaVals == {Missing, None, NaN, Num(0 - Scale), Num(0), Num(8000), Num(Scale),
             Num(5 * Scale), Num(6 * Scale)}

\* the calls DataFrame: a column is there for every row or for none
CallsTables ==
    UNION {[1..n -> [strike : StrikeVals, impliedVolatility : IVCells]] : n \in 0..MaxRows}
    \cup
    UNION {[1..n -> [strike : StrikeVals, impliedVolatility : {Missing}]] : n \in 1..MaxRows}
    \cup
    UNION {[1..n -> [strike : {Missing}, impliedVolatility : IVCells]] : n \in 1..MaxRows}

\* one run of the provider as the handler sees it: the info record q, then
\* what it read of beta, ticker.options and ticker.option_chain(..)
IVRun(q, beta, options, expirations, chain, calls) ==
    [info |-> q.info, currentPrice |-> q.currentPrice,
     regularMarketPrice |-> q.regularMarketPrice, beta |-> beta, options |-> options,
     expirations |-> expirations, chain |-> chain, calls |-> calls]

\* IVResponse(...) as the handler fills it
IVResponse(symbol, iv, atmStrike, expirationDate, source) ==
    [status |-> 200, symbol |-> symbol, iv |-> iv, atmStrike |-> atmStrike,
     expirationDate |-> expirationDate, source |-> source]

\* variant: the handler ends like the other endpoints, with HTTPException(500)
IVFallback_Reraise(symbol) == HTTPError(500)

\* the except-Exception branch
IVFallback(symbol) == IVResponse(Upper(symbol), Num(30 * Scale), None, "", "fallback")

\* beta = info.get("beta", 1.0) or 1.0; 20 + (beta - 1) * 15, clamped and rounded
EstimatedIV(betaCell) ==
    LET got == GetDefault(betaCell, Num(Scale))
        beta == IF Truthy(got) THEN got ELSE Num(Scale)
        estimated_iv == Plus(Num(20 * Scale), Times(Minus(beta, Num(Scale)), 15))
    IN  Round(PyMax(Num(15 * Scale), PyMin(Num(80 * Scale), estimated_iv)), Scale \div 10)

\* calls['distance'] = abs(calls['strike'] - current_price)
DistanceColumn(calls, price) ==
    [i \in 1..Len(calls) |-> Abs(Minus(calls[i].strike, price))]

\* variant: a scan that keeps the last row holding the minimum
IdxMin_Last(distance) ==
    LET ok == {i \in 1..Len(distance) : IsNum(distance[i])}
        best == {i \in ok : \A j \in ok : distance[i].v <= distance[j].v}
    IN  IF ok = {} THEN 0 ELSE CHOOSE i \in best : \A j \in best : i >= j

\* Series.idxmin(): the label of the first row holding the minimum, NaN
\* skipped; 0 when every entry is NaN (the lookup by that label then raises)
IdxMin(distance) ==
    LET ok == {i \in 1..Len(distance) : IsNum(distance[i])}
        best == {i \in ok : \A j \in ok : distance[i].v <= distance[j].v}
    IN  IF ok = {} THEN 0 ELSE CHOOSE i \in best : \A j \in best : i <= j

\* variant: `if iv <= 1`
ScaleIV_Inclusive(iv) == IF Less(iv, Num(Scale + 1)) THEN Times(iv, 100) ELSE iv

\* if iv < 1: iv = iv * 100
ScaleIV(iv) == IF Less(iv, Num(Scale)) THEN Times(iv, 100) ELSE iv

\* the try body of get_implied_volatility
get_implied_volatility_body(symbol, p) ==
    IF p.info = "raises" THEN RaiseOther
    ELSE LET current_price == ResolvePrice(p) IN
    IF ~Truthy(current_price) THEN RaiseHTTP(404)
    ELSE IF p.options = "raises" THEN RaiseOther
    ELSE IF p.expirations = <<>> THEN
        Return(IVResponse(Upper(symbol), EstimatedIV(p.beta), None, "", "estimated_from_beta"))
    ELSE LET nearest_exp == p.expirations[1] IN
    IF p.chain = "raises" THEN RaiseOther
    ELSE IF p.calls = <<>> THEN RaiseHTTP(404)
    \* calls['strike'] on a table without that column raises KeyError
    ELSE IF p.calls[1].strike = Missing THEN RaiseOther
    ELSE LET idx == IdxMin(DistanceColumn(p.calls, current_price)) IN
    \* calls.loc[..] of no label raises KeyError
    IF idx = 0 THEN RaiseOther
    ELSE LET atm_row == p.calls[idx]
             iv == GetDefault(atm_row.impliedVolatility, Num(3000))
         IN  Return(IVResponse(Upper(symbol), Round(ScaleIV(iv), Scale \div 10),
                               atm_row.strike, nearest_exp, "options_chain"))

\* except HTTPException: raise
\* except Exception as e: return IVResponse(.., iv=30.0, source="fallback", ..)
get_implied_volatility(symbol, p) ==
    LET r == get_implied_volatility_body(symbol, p)
    IN  IF r.exc = "Exception" THEN IVFallback(symbol) ELSE r.value

IVServe(symbol, p) ==
    /\ op' = "get_implied_volatility"
    /\ req' = [symbol |-> symbol]
    /\ prov' = p
    /\ resp' = get_implied_volatility(symbol, p)

GetImpliedVolatility ==
    /\ op = "idle"
    /\ \E symbol \in Symbols :
        \/ IVServe(symbol, IVRun(InfoRaised, Unread, "unread", <<>>, "unread", <<>>))
        \/ \E q \in PriceRuns :
            IF ~Truthy(ResolvePrice(q))
            THEN IVServe(symbol, IVRun(q, Unread, "unread", <<>>, "unread", <<>>))
            ELSE \/ IVServe(symbol, IVRun(q, Unread, "raises", <<>>, "unread", <<>>))
                 \/ \E b \in BetaVals :
                        IVServe(symbol, IVRun(q, b, "ok", <<>>, "unread", <<>>))
                 \/ \E e \in ExpirationLists \ {<<>>} :
                        \/ IVServe(symbol, IVRun(q, Unread, "ok", e, "raises", <<>>))
                        \/ \E c \in CallsTables :
                               IVServe(symbol, IVRun(q, Unread, "ok", e, "ok", c))

----------------------------------------------------------------------------
(* GET /options/{symbol}?expiry=                                           *)

MaxChainRows == 1

\* the expiry query parameter left out (Python None)
ExpiryNone == "None"

ExpiryRequests == {ExpiryNone, "", "2025-01-17", "2025-02-21", "2099-01-01"}

\* truthiness of Optional[str]: None and "" are falsy
TruthyStr(x) == x # ExpiryNone /\ x # ""

\* `x in expirations`
InList(x, list) == \E i \in 1..Len(list) : list[i] = x

\* what a cell of a numeric chain column holds: the column is missing, NaN,
\* 0, 0.2534, 1.2534 or 7.5
OptionCells == {Missing, NaN, Num(0), Num(2534), Num(12534), Num(75000)}

\* a chain row; process_options reads every column on its own, and the rows of
\* the model hold the same cell in each numeric column
OptionRow(x) ==
    [contractSymbol |-> "AAPL250117C00100000", strike |-> Num(100 * Scale),
     lastPrice |-> x, bid |-> x, ask |-> x, change |-> x, percentChange |-> x,
     volume |-> x, openInterest |-> x, impliedVolatility |-> x, inTheMoney |-> TRUE]

OptionRows == {OptionRow(x) : x \in OptionCells}

OptionTables == UNION {[1..n -> OptionRows] : n \in 0..MaxChainRows}

\* def clean_value(val)
clean_value(val) == IF val.k = "none" \/ IsNaN(val) THEN None ELSE val

\* int(x): truncation towards zero
PyInt(x) ==
    IF x.v >= 0 THEN Num((x.v \div Scale) * Scale)
    ELSE Num(0 - (((0 - x.v) \div Scale) * Scale))

\* int(row.get(c, 0)) if row.get(c) and not math.isnan(row.get(c)) else None
IntOrNone(cell) ==
    IF Truthy(Get(cell)) /\ ~IsNaN(Get(cell)) THEN PyInt(GetDefault(cell, Num(0))) ELSE None

\* iv = row.get('impliedVolatility', 0); if iv and iv < 1: iv = iv * 100
\* "impliedVolatility": round(iv, 2) if iv else None
ChainIV(cell) ==
    LET iv0 == GetDefault(cell, Num(0))
        iv == IF Truthy(iv0) /\ Less(iv0, Num(Scale)) THEN Times(iv0, 100) ELSE iv0
    IN  IF Truthy(iv) THEN Round(iv, Scale \div 100) ELSE None

\* the dict process_options appends for one row
OptionContract(row) ==
    [contractSymbol |-> row.contractSymbol,
     strike |-> row.strike,
     lastPrice |-> clean_value(Get(row.lastPrice)),
     bid |-> clean_value(Get(row.bid)),
     ask |-> clean_value(Get(row.ask)),
     change |-> clean_value(Get(row.change)),
     percentChange |-> clean_value(Get(row.percentChange)),
     volume |-> IntOrNone(row.volume),
     openInterest |-> IntOrNone(row.openInterest),
     impliedVolatility |-> ChainIV(row.impliedVolatility),
     inTheMoney |-> row.inTheMoney]

\* def process_options(df)
process_options(df) == [i \in 1..Len(df) |-> OptionContract(df[i])]

\* variant: the requested expiry is used whenever one is given
SelectExpiry_Unchecked(expiry, expirations) ==
    IF TruthyStr(expiry) THEN expiry ELSE expirations[1]

\* selected_expiry = expiry if expiry and expiry in expirations else expirations[0]
SelectExpiry(expiry, expirations) ==
    IF TruthyStr(expiry) /\ InList(expiry, expirations) THEN expiry ELSE expirations[1]

\* one run of the provider for the chain handler; chainFor is the expiry the
\* handler passed to ticker.option_chain(..)
ChainRun(q, options, expirations, chain, chainFor, calls, puts) ==
    [info |-> q.info, currentPrice |-> q.currentPrice,
     regularMarketPrice |-> q.regularMarketPrice, options |-> options,
     expirations |-> expirations, chain |-> chain, chainFor |-> chainFor,
     calls |-> calls, puts |-> puts]

\* the try body of get_options_chain
get_options_chain_body(symbol, expiry, p) ==
    IF p.info = "raises" THEN RaiseOther
    ELSE LET current_price == ResolvePrice(p) IN
    IF ~Truthy(current_price) THEN RaiseHTTP(404)
    ELSE IF p.options = "raises" THEN RaiseOther
    ELSE IF p.expirations = <<>> THEN RaiseHTTP(404)
    ELSE LET selected_expiry == SelectExpiry(expiry, p.expirations) IN
    IF p.chain = "raises" THEN RaiseOther
    ELSE Return([status |-> 200, symbol |-> Upper(symbol), expiry |-> selected_expiry,
                 expirations |-> p.expirations, underlyingPrice |-> current_price,
                 calls |-> process_options(p.calls), puts |-> process_options(p.puts)])

get_options_chain(symbol, expiry, p) ==
    ExceptClauses(get_options_chain_body(symbol, expiry, p))

ChainServe(symbol, expiry, p) ==
    /\ op' = "get_options_chain"
    /\ req' = [symbol |-> symbol, expiry |-> expiry]
    /\ prov' = p
    /\ resp' = get_options_chain(symbol, expiry, p)

GetOptionsChain ==
    /\ op = "idle"
    /\ \E symbol \in Symbols, expiry \in ExpiryRequests :
        \/ ChainServe(symbol, expiry, ChainRun(InfoRaised, "unread", <<>>, "unread", "", <<>>, <<>>))
        \/ \E q \in PriceRuns :
            IF ~Truthy(ResolvePrice(q))
            THEN ChainServe(symbol, expiry, ChainRun(q, "unread", <<>>, "unread", "", <<>>, <<>>))
            ELSE \/ ChainServe(symbol, expiry,
                               ChainRun(q, "raises", <<>>, "unread", "", <<>>, <<>>))
                 \/ \E e \in ExpirationLists :
                        IF e = <<>>
                        THEN ChainServe(symbol, expiry,
                                        ChainRun(q, "ok", e, "unread", "", <<>>, <<>>))
                        ELSE \/ ChainServe(symbol, expiry,
                                    ChainRun(q, "ok", e, "raises", SelectExpiry(expiry, e),
                                             <<>>, <<>>))
                             \/ \E calls \in OptionTables, puts \in OptionTables :
                                    ChainServe(symbol, expiry,
                                        ChainRun(q, "ok", e, "ok", SelectExpiry(expiry, e),
                                                 calls, puts))

----------------------------------------------------------------------------
(* GET /history/{symbol}?period=&interval=                                 *)

MaxBars == 2

Periods == {"1mo", "1d"}

Intervals == {"1d", "1m"}

\* what the price columns of a bar hold
BarCells == {NaN, Num(100 * Scale)}

\* bar number i of the series: index i, the same cell in every column
Bar(i, x) == [index |-> i, Open |-> x, High |-> x, Low |-> x, Close |-> x, Volume |-> x]

HistorySeries == UNION {{[i \in 1..n |-> Bar(i, c[i])] : c \in [1..n -> BarCells]} : n \in 0..MaxBars}

\* index.isoformat() of bar number i
IsoFormat(i) == [k |-> "iso", v |-> i]

\* the dict appended for one bar
HistoryBar(row) ==
    [date |-> IsoFormat(row.index), open |-> Get(row.Open), high |-> Get(row.High),
     low |-> Get(row.Low), close |-> Get(row.Close), volume |-> Get(row.Volume)]

\* the try body of get_history; period and interval go to the provider as given
get_history_body(symbol, p) ==
    IF p.history = "raises" THEN RaiseOther
    ELSE IF p.hist = <<>> THEN RaiseHTTP(404)
    ELSE Return([status |-> 200, symbol |-> Upper(symbol),
                 data |-> [i \in 1..Len(p.hist) |-> HistoryBar(p.hist[i])]])

get_history(symbol, p) == ExceptClauses(get_history_body(symbol, p))

HistoryServe(symbol, period, interval, history, hist) ==
    /\ op' = "get_history"
    /\ req' = [symbol |-> symbol, period |-> period, interval |-> interval]
    /\ prov' = [ticker |-> Upper(symbol), period |-> period, interval |-> interval,
                history |-> history, hist |-> hist]
    /\ resp' = get_history(symbol, prov')

GetHistory ==
    /\ op = "idle"
    /\ \E symbol \in Symbols, period \in Periods, interval \in Intervals :
        \/ HistoryServe(symbol, period, interval, "raises", <<>>)
        \/ \E hist \in HistorySeries : HistoryServe(symbol, period, interval, "ok", hist)

----------------------------------------------------------------------------
(* GET /options/{symbol}/expirations                                       *)

\* the try body of get_options_expirations
get_options_expirations_body(symbol, p) ==
    IF p.options = "raises" THEN RaiseOther
    ELSE IF p.expirations = <<>> THEN RaiseHTTP(404)
    ELSE Return([status |-> 200, symbol |-> Upper(symbol), expirations |-> p.expirations])

get_options_expirations(symbol, p) ==
    ExceptClauses(get_options_expirations_body(symbol, p))

ExpirationsServe(symbol, p) ==
    /\ op' = "get_options_expirations"
    /\ req' = [symbol |-> symbol]
    /\ prov' = p
    /\ resp' = get_options_expirations(symbol, p)

GetOptionsExpirations ==
    /\ op = "idle"
    /\ \E symbol \in Symbols :
        \/ ExpirationsServe(symbol, [options |-> "raises", expirations |-> <<>>])
        \/ \E e \in ExpirationLists :
            ExpirationsServe(symbol, [options |-> "ok", expirations |-> e])

----------------------------------------------------------------------------
(* GET /fundamentals/{symbol}                                              *)

MetricVals == {Missing, None, Num(0), Num(25 * Scale)}

\* exDividendDate is an epoch timestamp
ExDividendVals == {Missing, Num(0), Num(1700000000)}

\* str(x)
Str(x) == [k |-> "str", v |-> x.v]

FundamentalsRun(q, trailingPE, beta, exDividendDate) ==
    [info |-> q.info, currentPrice |-> q.currentPrice,
     regularMarketPrice |-> q.regularMarketPrice, trailingPE |-> trailingPE,
     beta |-> beta, exDividendDate |-> exDividendDate]

\* the try body of get_fundamentals: every metric is info.get(key)
get_fundamentals_body(symbol, p) ==
    IF p.info = "raises" THEN RaiseOther
    ELSE LET current_price == ResolvePrice(p) IN
    IF ~Truthy(current_price) THEN RaiseHTTP(404)
    ELSE Return([status |-> 200, symbol |-> Upper(symbol), currentPrice |-> current_price,
                 trailingPE |-> Get(p.trailingPE), beta |-> Get(p.beta),
                 exDividendDate |-> IF Truthy(Get(p.exDividendDate))
                                    THEN Str(Get(p.exDividendDate)) ELSE None])

get_fundamentals(symbol, p) == ExceptClauses(get_fundamentals_body(symbol, p))

FundamentalsServe(symbol, p) ==
    /\ op' = "get_fundamentals"
    /\ req' = [symbol |-> symbol]
    /\ prov' = p
    /\ resp' = get_fundamentals(symbol, p)

GetFundamentals ==
    /\ op = "idle"
    /\ \E symbol \in Symbols :
        \/ FundamentalsServe(symbol, FundamentalsRun(InfoRaised, Unread, Unread, Unread))
        \/ \E q \in PriceRuns :
            IF ~Truthy(ResolvePrice(q))
            THEN FundamentalsServe(symbol, FundamentalsRun(q, Unread, Unread, Unread))
            ELSE \E pe \in MetricVals, b \in MetricVals, x \in ExDividendVals :
                    FundamentalsServe(symbol, FundamentalsRun(q, pe, b, x))

----------------------------------------------------------------------------
(* GET /earnings/{symbol}                                                  *)

MaxEarnRows == 13

MaxQuarters == 2

\* ed.head(12)
HeadRows == 12

EarningsCells == {NaN, Num(15000)}

\* ticker.earnings_dates: it raises, is None, or is a table (kind "frame")
EarningsDatesAnswers ==
    {[kind |-> "raises", rows |-> <<>>], [kind |-> "none", rows |-> <<>>]}
    \cup
    {[kind |-> "frame",
      rows |-> [i \in 1..n |-> [index |-> i, EPSEstimate |-> c, ReportedEPS |-> c,
                                Surprise |-> c]]] :
        n \in 0..MaxEarnRows, c \in EarningsCells}

\* ticker.calendar: it raises, is None, is not a dict (kind "frame"), or is a
\* dict whose "Earnings Date" entry is missing, a list of dates or one date
CalendarAnswers ==
    {[kind |-> k, entry |-> "missing", dates |-> <<>>] : k \in {"raises", "none", "frame", "dict"}}
    \cup
    {[kind |-> "dict", entry |-> "list", dates |-> d] : d \in {<<>>, <<1>>, <<2, 1>>}}
    \cup
    {[kind |-> "dict", entry |-> "date", dates |-> <<d>>] : d \in {1, 2}}

\* ticker.quarterly_earnings: it raises, is None, or is a table
QuarterlyAnswers ==
    {[kind |-> "raises", rows |-> <<>>], [kind |-> "none", rows |-> <<>>]}
    \cup
    {[kind |-> "frame",
      rows |-> [i \in 1..n |-> [index |-> i, Revenue |-> c, Earnings |-> c]]] :
        n \in 0..MaxQuarters, c \in EarningsCells}

\* a Python list
List(items) == [k |-> "list", v |-> items]

\* def safe_val(v)
safe_val(v) == IF v.k = "none" \/ IsNaN(v) THEN None ELSE v

\* df.head(n)
DataFrameHead(rows, n) == SubSeq(rows, 1, IF Len(rows) < n THEN Len(rows) ELSE n)

\* the first try block: None unless the table is there and not empty
EarningsHistory(ed) ==
    IF ed.kind = "frame" /\ ed.rows # <<>>
    THEN LET head == DataFrameHead(ed.rows, HeadRows) IN
         List([i \in 1..Len(head) |->
                [date |-> IsoFormat(head[i].index),
                 epsEstimate |-> safe_val(Get(head[i].EPSEstimate)),
                 epsActual |-> safe_val(Get(head[i].ReportedEPS)),
                 surprise |-> safe_val(Get(head[i].Surprise))]])
    ELSE None

\* the second try block: str(ed_val[0]) for a non-empty list, str(ed_val) for a date
NextEarningsDate(calendar) ==
    IF calendar.kind = "dict" /\ calendar.entry # "missing" /\ calendar.dates # <<>>
    THEN [k |-> "str", v |-> calendar.dates[1]]
    ELSE None

\* the third try block
QuarterlyEarnings(qe) ==
    IF qe.kind = "frame" /\ qe.rows # <<>>
    THEN List([i \in 1..Len(qe.rows) |->
                [quarter |-> [k |-> "str", v |-> qe.rows[i].index],
                 revenue |-> Get(qe.rows[i].Revenue),
                 earnings |-> Get(qe.rows[i].Earnings)]])
    ELSE None

EarningsResponse(symbol, nextEarningsDate, earningsHistory, quarterlyEarnings) ==
    [status |-> 200, symbol |-> symbol, nextEarningsDate |-> nextEarningsDate,
     earningsHistory |-> earningsHistory, quarterlyEarnings |-> quarterlyEarnings]

\* variant: one try block around the three fetches, so that a failure skips
\* the fetches after it
get_earnings_SharedTry(symbol, p) ==
    LET ed == p.earnings_dates.kind = "raises"
        cal == ed \/ p.calendar.kind = "raises"
        qe == cal \/ p.quarterly_earnings.kind = "raises"
    IN  EarningsResponse(Upper(symbol),
            IF cal THEN None ELSE NextEarningsDate(p.calendar),
            IF ed THEN None ELSE EarningsHistory(p.earnings_dates),
            IF qe THEN None ELSE QuarterlyEarnings(p.quarterly_earnings))

\* get_earnings: three try blocks, each `except Exception: pass`, then the
\* response; nothing between them raises, so the outer except clauses stay idle
get_earnings(symbol, p) ==
    EarningsResponse(Upper(symbol),
        IF p.calendar.kind = "raises" THEN None ELSE NextEarningsDate(p.calendar),
        IF p.earnings_dates.kind = "raises" THEN None ELSE EarningsHistory(p.earnings_dates),
        IF p.quarterly_earnings.kind = "raises" THEN None
        ELSE QuarterlyEarnings(p.quarterly_earnings))

GetEarnings ==
    /\ op = "idle"
    /\ \E symbol \in Symbols, ed \in EarningsDatesAnswers, cal \in CalendarAnswers,
          qe \in QuarterlyAnswers :
        /\ op' = "get_earnings"
        /\ req' = [symbol |-> symbol]
        /\ prov' = [earnings_dates |-> ed, calendar |-> cal, quarterly_earnings |-> qe]
        /\ resp' = get_earnings(symbol, prov')

----------------------------------------------------------------------------
(* GET /search                                                             *)

\* the q parameter; Upper is exact on each of them
Queries == {"aapl", "AAPL", ""}

\* a string held by an info key
StrVal(s) == [k |-> "str", v |-> s]

\* Python truthiness of an info value that may be a string: "" is falsy
TruthyInfo(x) == IF x.k = "str" THEN x.v # "" ELSE Truthy(x)

\* what info["symbol"] can hold
SymbolVals == {Missing, None, StrVal(""), StrVal("AAPL"), StrVal("AAPL.MX")}

\* what shortName, longName, exchange and quoteType can hold
NameVals == {Missing, None, StrVal("Apple Inc.")}

ExchangeVals == {Missing, StrVal("NMS")}

\* the provider's answers to yf.Ticker(q.upper()) and ticker.info; the other
\* keys are read only once info.get("symbol") was truthy
SearchRun(q, ticker, info, symbol, shortName, longName, exchange, quoteType) ==
    [tickerFor |-> Upper(q), ticker |-> ticker, info |-> info, symbol |-> symbol,
     shortName |-> shortName, longName |-> longName, exchange |-> exchange,
     quoteType |-> quoteType]

\* the try body of search_symbols
search_symbols_body(q, p) ==
    IF p.ticker = "raises" \/ p.info = "raises" THEN RaiseOther
    ELSE IF TruthyInfo(Get(p.symbol))
         THEN Return([status |-> 200,
                      results |-> <<[symbol |-> Get(p.symbol),
                                     shortname |-> Get(p.shortName),
                                     longname |-> Get(p.longName),
                                     exchange |-> Get(p.exchange),
                                     quoteType |-> Get(p.quoteType)]>>])
         ELSE Return([status |-> 200, results |-> <<>>])

\* variant: the except clauses of the other handlers
search_symbols_Raise500(q, p) == ExceptClauses(search_symbols_body(q, p))

\* except Exception: return {"results": []}
search_symbols(q, p) ==
    LET r == search_symbols_body(q, p)
    IN  IF r.exc = "" THEN r.value ELSE [status |-> 200, results |-> <<>>]

SearchServe(q, p) ==
    /\ op' = "search_symbols"
    /\ req' = [q |-> q]
    /\ prov' = p
    /\ resp' = search_symbols(q, p)

SearchSymbols ==
    /\ op = "idle"
    /\ \E q \in Queries :
        \/ SearchServe(q, SearchRun(q, "raises", "unread", Unread, Unread, Unread,
                                    Unread, Unread))
        \/ SearchServe(q, SearchRun(q, "ok", "raises", Unread, Unread, Unread,
                                    Unread, Unread))
        \/ \E symbol \in {x \in SymbolVals : ~TruthyInfo(Get(x))} :
            SearchServe(q, SearchRun(q, "ok", "ok", symbol, Unread, Unread, Unread,
                                     Unread))
        \/ \E symbol \in {x \in SymbolVals : TruthyInfo(Get(x))} :
            \E shortName \in NameVals, longName \in NameVals,
               exchange \in ExchangeVals, quoteType \in ExchangeVals :
                SearchServe(q, SearchRun(q, "ok", "ok", symbol, shortName, longName,
                                         exchange, quoteType))

----------------------------------------------------------------------------

Idle == [status |-> 0]

Init ==
    /\ op = "idle"
    /\ req = Idle
    /\ prov = Idle
    /\ resp = Idle

NextRequest ==
    /\ op # "idle"
    /\ op' = "idle"
    /\ req' = Idle
    /\ prov' = Idle
    /\ resp' = Idle

NextQuote == GetQuote \/ NextRequest

SpecQuote == Init /\ [][NextQuote]_vars

NextChain == GetOptionsChain \/ NextRequest

SpecChain == Init /\ [][NextChain]_vars

NextStatus ==
    \/ GetQuote
    \/ GetHistory
    \/ GetOptionsExpirations
    \/ GetOptionsChain
    \/ GetFundamentals
    \/ NextRequest

SpecStatus == Init /\ [][NextStatus]_vars

NextEarnings == GetEarnings \/ NextRequest

SpecEarnings == Init /\ [][NextEarnings]_vars

NextIV == GetImpliedVolatility \/ NextRequest

SpecIV == Init /\ [][NextIV]_vars

NextSearch == SearchSymbols \/ NextRequest

SpecSearch == Init /\ [][NextSearch]_vars

----------------------------------------------------------------------------
(* Properties of GET /iv/{symbol}                                          *)

IVServed == op = "get_implied_volatility"

IVNoPrice == prov.info = "ok" /\ ~Truthy(ResolvePrice(prov))

IVEmptyCalls == prov.chain = "ok" /\ prov.calls = <<>>

IVStrikeColumnMissing ==
    prov.chain = "ok" /\ prov.calls # <<>> /\ prov.calls[1].strike = Missing

IVFailure ==
    \/ prov.info = "raises"
    \/ prov.options = "raises"
    \/ prov.chain = "raises"
    \/ IVStrikeColumnMissing

\* C1: every /iv request ends in 404 (no resolvable price, or an empty calls
\* table) or in 200, never in 500; a failure of the info fetch, the
\* expirations fetch, the chain fetch or the reading of the ATM row gives
\* 200 with iv = 30.0 and source "fallback", and the two 404 cases are not
\* turned into that fallback.
C1_IVStatus ==
    IVServed =>
        /\ resp.status \in {200, 404}
        /\ resp.status = 404 <=> (IVNoPrice \/ IVEmptyCalls)
        /\ IVFailure =>
            /\ resp.status = 200
            /\ resp.iv = Num(30 * Scale)
            /\ resp.source = "fallback"
        /\ (resp.status = 200 /\ resp.source = "fallback") => IVFailure

C1_Witness ==
    /\ IVServed
    /\ prov.chain = "raises"
    /\ resp.status = 200
    /\ resp.source = "fallback"

\* the beta the claim's ordering is about: an absent beta counts as 1
BetaOrOne(b) == IF IsNum(b) THEN b.v ELSE Scale

IVEstimatedPath ==
    /\ IVServed
    /\ prov.info = "ok"
    /\ Truthy(ResolvePrice(prov))
    /\ prov.options = "ok"
    /\ prov.expirations = <<>>

\* C2: with a resolvable price and no expirations the estimated IV (source
\* "estimated_from_beta") is non-decreasing in beta over positive, zero and
\* negative betas (absent counts as 1), lies in [15, 80], and is 20.0 at
\* beta 1, 80.0 at beta 5 and 15.0 at beta -1.
C2_EstimatedMonotone ==
    (IVEstimatedPath /\ ~IsNaN(prov.beta)) =>
        /\ resp.status = 200
        /\ resp.source = "estimated_from_beta"
        /\ 15 * Scale <= resp.iv.v /\ resp.iv.v <= 80 * Scale
        /\ \A b \in {x \in BetaVals : ~IsNaN(x)} :
            /\ BetaOrOne(b) <= BetaOrOne(prov.beta) => EstimatedIV(b).v <= resp.iv.v
            /\ BetaOrOne(b) >= BetaOrOne(prov.beta) => EstimatedIV(b).v >= resp.iv.v
        /\ prov.beta = Num(Scale) => resp.iv = Num(20 * Scale)
        /\ prov.beta = Num(5 * Scale) => resp.iv = Num(80 * Scale)
        /\ prov.beta = Num(0 - Scale) => resp.iv = Num(15 * Scale)

IVChainPath ==
    /\ IVServed
    /\ prov.chain = "ok"
    /\ prov.calls # <<>>
    /\ ~IVStrikeColumnMissing

\* |strike - current_price| per row, in fixed point
StrikeDistances ==
    LET price == ResolvePrice(prov).v IN
    [i \in 1..Len(prov.calls) |->
        LET d == prov.calls[i].strike.v - price IN IF d < 0 THEN 0 - d ELSE d]

\* C6: on a non-empty calls table the row whose strike and IV are returned
\* minimizes |strike - current_price| over all rows and is the first row
\* in provider order at that distance; strikes [90, 100, 110] at price 101
\* report atmStrike 100.
C6_ATMRow ==
    IVChainPath =>
        LET dist == StrikeDistances IN
        /\ resp.status = 200
        /\ resp.source = "options_chain"
        /\ \E i \in 1..Len(prov.calls) :
            /\ \A j \in 1..Len(prov.calls) : dist[i] <= dist[j]
            /\ \A j \in 1..(i - 1) : dist[j] > dist[i]
            /\ resp.atmStrike = prov.calls[i].strike
            /\ resp.iv = Round(ScaleIV(GetDefault(prov.calls[i].impliedVolatility, Num(3000))),
                               Scale \div 10)
        /\ ( /\ [i \in 1..Len(prov.calls) |-> prov.calls[i].strike]
                    = <<Num(90 * Scale), Num(100 * Scale), Num(110 * Scale)>>
             /\ ResolvePrice(prov) = Num(101 * Scale) )
           => resp.atmStrike = Num(100 * Scale)

\* two rows at the minimum distance with different strikes and different IVs,
\* the first of them reported
C6_Witness ==
    /\ IVChainPath
    /\ Len(prov.calls) = 3
    /\ ResolvePrice(prov) = Num(95 * Scale)
    /\ prov.calls[1].strike = Num(110 * Scale)
    /\ prov.calls[2].strike = Num(100 * Scale)
    /\ prov.calls[3].strike = Num(90 * Scale)
    /\ prov.calls[2].impliedVolatility = Num(12500)
    /\ prov.calls[3].impliedVolatility = Num(9996)
    /\ resp.atmStrike = Num(100 * Scale)
    /\ resp.iv = Num(12000)

\* r is x rounded to one decimal: the nearest multiple of 0.1, the even one on a tie
IsRoundedTo1(r, x) ==
    LET unit == Scale \div 10
        d == IF r < x THEN x - r ELSE r - x
    IN  /\ r % unit = 0
        /\ 2 * d <= unit
        /\ 2 * d = unit => (r \div unit) % 2 = 0

\* the raw value read from the selected ATM row
IVRawValue ==
    GetDefault(prov.calls[IdxMin(DistanceColumn(prov.calls, ResolvePrice(prov)))].impliedVolatility,
               Num(3000))

\* C10: on the options-chain path the emitted iv is round(v * 100, 1) when the
\* raw value v of the ATM row is below 1 and round(v, 1) otherwise.
C10_IVNormalized ==
    (IVChainPath /\ resp.status = 200 /\ resp.source = "options_chain") =>
        LET v == IVRawValue IN
            IF IsNum(v)
            THEN /\ IsNum(resp.iv)
                 /\ IF v.v < Scale
                    THEN IsRoundedTo1(resp.iv.v, v.v * 100)
                    ELSE IsRoundedTo1(resp.iv.v, v.v)
            ELSE IsNaN(resp.iv)

\* 0.9996 is below 1 and is emitted as 100.0
C10_Witness ==
    /\ IVChainPath
    /\ resp.status = 200
    /\ resp.source = "options_chain"
    /\ IVRawValue = Num(9996)
    /\ resp.iv = Num(100 * Scale)

----------------------------------------------------------------------------
(* Properties of GET /earnings/{symbol}                                    *)

EarningsServed == op = "get_earnings"

\* the provider's answers with every failed sub-fetch answering None instead
WithoutFailures(p) ==
    [earnings_dates |-> IF p.earnings_dates.kind = "raises"
                        THEN [kind |-> "none", rows |-> <<>>] ELSE p.earnings_dates,
     calendar |-> IF p.calendar.kind = "raises"
                  THEN [kind |-> "none", entry |-> "missing", dates |-> <<>>] ELSE p.calendar,
     quarterly_earnings |-> IF p.quarterly_earnings.kind = "raises"
                            THEN [kind |-> "none", rows |-> <<>>] ELSE p.quarterly_earnings]

\* C4: whichever of the three sub-fetches fail, the response is 200, the field
\* of a failed sub-fetch is null and the field of every other sub-fetch is what
\* it is when nothing fails; a failure of quarterly-earnings alone leaves
\* earningsHistory and nextEarningsDate populated.
C4_EarningsIsolated ==
    EarningsServed =>
        LET clean == get_earnings(req.symbol, WithoutFailures(prov)) IN
        /\ resp.status = 200
        /\ resp.earningsHistory =
              IF prov.earnings_dates.kind = "raises" THEN None ELSE clean.earningsHistory
        /\ resp.nextEarningsDate =
              IF prov.calendar.kind = "raises" THEN None ELSE clean.nextEarningsDate
        /\ resp.quarterlyEarnings =
              IF prov.quarterly_earnings.kind = "raises" THEN None ELSE clean.quarterlyEarnings
        /\ ( /\ prov.quarterly_earnings.kind = "raises"
             /\ prov.earnings_dates.kind = "frame" /\ prov.earnings_dates.rows # <<>>
             /\ prov.calendar.kind = "dict" /\ prov.calendar.dates # <<>> )
           => /\ resp.earningsHistory.k = "list"
              /\ Len(resp.earningsHistory.v) > 0
              /\ resp.nextEarningsDate.k = "str"
              /\ resp.quarterlyEarnings = None

\* the calendar fetch fails between two fetches that deliver
C4_Witness ==
    /\ EarningsServed
    /\ prov.earnings_dates.kind = "frame"
    /\ Len(prov.earnings_dates.rows) = MaxEarnRows
    /\ prov.calendar.kind = "raises"
    /\ prov.quarterly_earnings.kind = "frame"
    /\ Len(prov.quarterly_earnings.rows) = 2
    /\ resp.status = 200
    /\ Len(resp.earningsHistory.v) = HeadRows
    /\ resp.nextEarningsDate = None
    /\ Len(resp.quarterlyEarnings.v) = 2

----------------------------------------------------------------------------
(* Properties of GET /quote/{symbol}                                       *)

QuotePriced == op = "get_quote" /\ prov.info = "ok" /\ Truthy(ResolvePrice(prov))

\* C5: for every provider record with a resolvable price GetQuote answers 200
\* with previousClose equal to the provider's previousClose when there is one
\* and to the resolved price when the key is missing or holds None.
C5_PreviousClose ==
    QuotePriced =>
        /\ resp.status = 200
        /\ resp.previousClose =
              IF prov.previousClose \in {Missing, None}
              THEN ResolvePrice(prov) ELSE prov.previousClose

----------------------------------------------------------------------------
(* Properties of GET /options/{symbol}                                     *)

ChainServed == op = "get_options_chain"

ChainListed ==
    /\ ChainServed
    /\ prov.info = "ok"
    /\ Truthy(ResolvePrice(prov))
    /\ prov.options = "ok"
    /\ prov.expirations # <<>>

ChainSides == {"calls", "puts"}

\* C3: in every row of calls and of puts, volume and openInterest are emitted
\* as an integer whenever the provider value is present and not NaN, zero
\* included, and as absent otherwise; a NaN is absent, never 0.
C3_VolumeInteger ==
    (ChainServed /\ resp.status = 200) =>
        \A side \in ChainSides : \A i \in 1..Len(prov[side]) :
            \A col \in {"volume", "openInterest"} :
                LET cell == prov[side][i][col]
                    out == resp[side][i][col]
                IN  IF IsNum(cell)
                    THEN /\ IsNum(out)
                         /\ out.v % Scale = 0
                         /\ out = PyInt(cell)
                    ELSE out = None

\* C7: with a resolvable price and a non-empty expirations list the selected
\* expiry is the requested one when it is in the provider's list and the first
\* listed one otherwise (expiry absent, empty or unknown); the chain is fetched
\* for it, the response reports it, it is a member of the list, and only a
\* failing chain fetch gives an error response.
C7_ExpirySelection ==
    ChainListed =>
        LET selected == IF InList(req.expiry, prov.expirations)
                        THEN req.expiry ELSE prov.expirations[1]
        IN  /\ prov.chainFor = selected
            /\ InList(prov.chainFor, prov.expirations)
            /\ resp.status = 200 <=> prov.chain = "ok"
            /\ resp.status = 200 => resp.expiry = selected

\* an expiry that the provider does not list is served the first listed one
C7_Witness ==
    /\ ChainListed
    /\ req.expiry = "2099-01-01"
    /\ prov.expirations = <<"2025-01-17", "2025-02-21">>
    /\ prov.chainFor = "2025-01-17"
    /\ resp.status = 200
    /\ resp.expiry = "2025-01-17"

\* C9: in every emitted contract record each of lastPrice, bid, ask, change,
\* percentChange and impliedVolatility is absent whenever the provider's value
\* is null or NaN (not 0, not NaN, no error response), and an implied
\* volatility below 1 that is neither null nor NaN is emitted times 100.
C9_NumericFields ==
    (ChainListed /\ prov.chain = "ok") =>
        /\ resp.status = 200
        /\ \A side \in ChainSides : \A i \in 1..Len(prov[side]) :
            \A col \in {"lastPrice", "bid", "ask", "change", "percentChange",
                        "impliedVolatility"} :
                LET cell == prov[side][i][col]
                    out == resp[side][i][col]
                IN  /\ ~IsNum(cell) => out = None
                    /\ (col = "impliedVolatility" /\ IsNum(cell) /\ cell.v < Scale)
                         => out = Num(cell.v * 100)

----------------------------------------------------------------------------
(* Properties of the endpoints without a fallback                          *)

\* the three outcomes: 404 exactly when the provider answered and the data
\* is absent, 500 when the provider raised
Taxonomy(raised, absent) ==
    /\ resp.status \in {200, 404, 500}
    /\ resp.status = 404 <=> absent
    /\ raised => resp.status = 500

NoPrice == prov.info = "ok" /\ ~Truthy(ResolvePrice(prov))

\* C8: GetQuote, GetHistory, GetOptionsExpirations, GetOptionsChain and
\* GetFundamentals end in 200, 404 or 500: 404 exactly when the provider
\* answered without raising and the required data is absent (no resolvable
\* price, empty history, empty expirations), 500 when the provider raises,
\* and a 404 is never turned into a 500.
C8_StatusTaxonomy ==
    /\ op = "get_quote" => Taxonomy(prov.info = "raises", NoPrice)
    /\ op = "get_fundamentals" => Taxonomy(prov.info = "raises", NoPrice)
    /\ op = "get_history" =>
          Taxonomy(prov.history = "raises", prov.history = "ok" /\ prov.hist = <<>>)
    /\ op = "get_options_expirations" =>
          Taxonomy(prov.options = "raises", prov.options = "ok" /\ prov.expirations = <<>>)
    /\ op = "get_options_chain" =>
          Taxonomy(prov.info = "raises" \/ prov.options = "raises" \/ prov.chain = "raises",
                   NoPrice \/ (prov.options = "ok" /\ prov.expirations = <<>>))

\* GetHistory("aapl", "1mo", "1d") on an empty series answers 404
C8_Witness ==
    /\ op = "get_history"
    /\ req.period = "1mo"
    /\ req.interval = "1d"
    /\ prov.history = "ok"
    /\ prov.hist = <<>>
    /\ resp.status = 404

----------------------------------------------------------------------------
(* Properties of GET /search                                               *)

SearchServed == op = "search_symbols"

\* the provider raised while the ticker was built or its info fetched
SearchProviderError == prov.ticker = "raises" \/ prov.info = "raises"

\* the fetched record carries a symbol: a non-empty string under "symbol"
SearchCarriesSymbol ==
    /\ ~SearchProviderError
    /\ prov.symbol.k = "str"
    /\ prov.symbol.v # ""

\* C11: search_symbols never answers with an error: for every query and every
\* provider behaviour the response is 200 with a results list of length 0 or
\* 1; the record is fetched for the uppercased query; the list has one element
\* exactly when that record carries a symbol, and is empty on any provider
\* error.
C11_SearchNeverFails ==
    SearchServed =>
        /\ resp.status = 200
        /\ Len(resp.results) \in {0, 1}
        /\ req.q \in {"aapl", "AAPL"} => prov.tickerFor = "AAPL"
        /\ req.q = "" => prov.tickerFor = ""
        /\ Len(resp.results) = 1 <=> SearchCarriesSymbol
        /\ SearchProviderError => resp.results = <<>>

\* a lower-case query whose record fetch raised, answered with an empty list
C11_Witness ==
    /\ SearchServed
    /\ req.q = "aapl"
    /\ prov.info = "raises"
    /\ resp.status = 200
    /\ resp.results = <<>>

====
